---- MODULE Spec2Model ----
(***************************************************************************)
(* pagerduty-auto-ack: the monitoring daemon of pagerduty_auto_ack/cli.py  *)
(* (main) over the backend calls of pagerduty_auto_ack/pd.py.              *)
(*                                                                         *)
(* A Python object reference is modelled as a box: None is the empty       *)
(* tuple, any other value v is <<v>>.  An empty list is therefore          *)
(* Box(<<>>), which is not None.                                           *)
(***************************************************************************)
EXTENDS Integers, Sequences, FiniteSets, TLC

VARIABLES
    pc,             \* position of main()
    args,           \* argparse namespace (parse_args)
    file,           \* the TOML document behind --config: [ok, doc]
    cfg,            \* resolve_config's result
    bound,          \* names of main's locals that have been assigned
    ack_incidents,  \* RunState: every incident appended at cli.py:163
    incidents,      \* the cycle's incident list (fetched, then truncated)
    incident_ids,   \* ids handed to action_fn
    oncall,         \* outcome of the cycle's on-call query ("none" when not asked)
    raised,         \* exception raised inside the cycle's try ("none" if none)
    fetched,        \* incident numbers the cycle's fetch returned, in order
    calls,          \* backend requests issued in the current cycle, in order
    sleeps,         \* sleeps completed in the current cycle
    start_len,      \* len(ack_incidents) when the current cycle started
    appends,        \* number of cycles that extended ack_incidents
    identity_calls, \* number of users/me requests issued
    backend,        \* backend incidents: incident number -> lifecycle status
    bursts,         \* number of incident bursts the backend has received
    interrupted,    \* "no", or where main was when KeyboardInterrupt arrived
    exit_status,    \* process exit status, None while running
    exit_cause,     \* why the process ended
    logs            \* [cycle_sum, shutdown, printed]: what was logged / printed

vars == << pc, args, file, cfg, bound, ack_incidents, incidents, incident_ids,
           oncall, raised, fetched, calls, sleeps, start_len, appends, identity_calls,
           backend, bursts, interrupted, exit_status, exit_cause, logs >>

------------------------------------------------------------------------------
(* Python values *)

None == << >>

Box(v) == << v >>

Unbox(b) == b[1]

\* Python truth value of an optional str (`if x:`, `if not x:`).
Truthy(b) == b # None /\ Unbox(b) # ""

------------------------------------------------------------------------------
(* Config Resolver: cli.py DEFAULTS, load_config, resolve_config *)

Keys == { "pagerduty_api_key", "interval", "urgencies", "action",
          "all_incidents", "schedule_id" }

DefaultInterval == 60

DEFAULTS == [ pagerduty_api_key |-> None,
              interval          |-> Box(DefaultInterval),
              urgencies         |-> Box(<< >>),
              action            |-> Box("ack"),
              all_incidents     |-> Box(FALSE),
              schedule_id       |-> None ]

\* dict.get(key, default)
Get(d, key, default) == IF key \in DOMAIN d THEN Box(d[key]) ELSE default

EmptyDict == [ k \in {} |-> None ]

\* tomllib.load of the file at the path; the caller guards on file.ok
load_config(f) == f.doc

\* a plausible slip: the file wins over the command line
pick_FileFirst(cli_val, key, config) ==
    IF key \in DOMAIN config THEN Box(config[key])
    ELSE IF cli_val # None THEN cli_val ELSE DEFAULTS[key]

pick(cli_val, key, config) ==
    IF cli_val # None THEN cli_val ELSE Get(config, key, DEFAULTS[key])

resolve_config(a, f) ==
    LET config == IF Truthy(a.config) THEN load_config(f) ELSE EmptyDict
    IN  [ pagerduty_api_key |-> pick(a.pagerduty_api_key, "pagerduty_api_key", config),
          interval          |-> pick(a.interval, "interval", config),
          urgencies         |-> pick(a.urgencies, "urgencies", config),
          action            |-> pick(a.action, "action", config),
          all_incidents     |-> pick(a.all_incidents, "all_incidents", config),
          schedule_id       |-> pick(a.schedule_id, "schedule_id", config) ]

------------------------------------------------------------------------------
(* The backend and its wrappers: pd.py *)

\* cli.py:160, "PD API supports max of 250 updates at the same time"
BatchLimit == 250

\* bounds of the model
MaxBursts == 2

MaxIncidents == 255

MaxAppends == 2

BigBurst == BatchLimit + 2

SmallBurst == 3

BurstSizes == { SmallBurst, BigBurst }

\* an incident arrives triggered, or already acknowledged by a person
ArrivalStatuses == { "triggered", "acknowledged" }

Min(a, b) == IF a < b THEN a ELSE b

\* an incident as the backend returns it; the id is opaque
Incident(n) == [ id |-> << "P", n >>, incident_number |-> n ]

\* the statuses[] filter of the request
HasStatus(st, sts) == \E i \in DOMAIN sts : st = sts[i]

\* incident numbers of b whose lifecycle status is one of sts
Matching(b, sts) == { n \in DOMAIN b : HasStatus(b[n], sts) }

\* a plausible slip: ascending instead of "incident_number:desc"
get_incidents_Ascending(b, sts) ==
    LET all  == [ i \in 1..Len(b) |-> i ]
        nums == SelectSeq(all, LAMBDA n : HasStatus(b[n], sts))
    IN  [ i \in 1..Len(nums) |-> Incident(nums[i]) ]

\* GET incidents with statuses=sts, sort_by=incident_number:desc.  Every incident
\* of the model's backend is in the scope (user_ids, urgencies) of the request.
get_incidents(b, sts) ==
    LET all  == [ i \in 1..Len(b) |-> Len(b) + 1 - i ]
        nums == SelectSeq(all, LAMBDA n : HasStatus(b[n], sts))
    IN  [ i \in 1..Len(nums) |-> Incident(nums[i]) ]

\* a plausible slip: an empty on-call answer is taken for "on-call"
is_user_oncall_AlwaysTrue(outcome) == TRUE

\* a plausible slip: the failed query counts as "not on-call" (fail closed)
is_user_oncall_FailClosed(outcome) == outcome = "entries"

\* pd.py:36-50; outcome is what GET oncalls did: "entries", "empty" or "error"
is_user_oncall(outcome) ==
    IF outcome = "error" THEN TRUE ELSE outcome = "entries"

\* a plausible slip: the early return on an empty id list is missing
_update_incidents_NoGuard(ids, status) ==
    Box([ i \in 1..Len(ids) |->
            [ id |-> ids[i], type |-> "incident_reference", status |-> status ] ])

\* pd.py:53-71; None when no request is made, else the body of the PUT
_update_incidents(ids, status) ==
    IF ids = << >> THEN None
    ELSE Box([ i \in 1..Len(ids) |->
                 [ id |-> ids[i], type |-> "incident_reference", status |-> status ] ])

acknowledge_incidents(ids) == _update_incidents(ids, "acknowledged")

resolve_incidents(ids) == _update_incidents(ids, "resolved")

\* the backend applying an accepted bulk update
ApplyUpdate(b, body) ==
    LET named == { body[i].id : i \in DOMAIN body }
    IN  [ n \in DOMAIN b |->
            IF Incident(n).id \in named
            THEN body[CHOOSE i \in DOMAIN body : body[i].id = Incident(n).id].status
            ELSE b[n] ]

------------------------------------------------------------------------------
(* main: the locals derived from cfg, cli.py:110-141 *)

pd_api_key == cfg["pagerduty_api_key"]

action == Unbox(cfg["action"])

interval == Unbox(cfg["interval"])

schedule_id == cfg["schedule_id"]

\* a plausible slip: the fetch filter does not follow the action
statuses_TriggeredOnly == << "triggered" >>

\* cli.py:128-135
statuses ==
    IF action = "resolve" THEN << "triggered", "acknowledged" >> ELSE << "triggered" >>

action_label == IF action = "resolve" THEN "resolved" ELSE "acknowledged"

action_fn(ids) ==
    IF action = "resolve" THEN resolve_incidents(ids) ELSE acknowledge_incidents(ids)

\* a plausible slip: no truncation
Truncate_None(l) == l

\* cli.py:160, incidents[:250]
Truncate(l) == SubSeq(l, 1, Min(Len(l), BatchLimit))

\* cli.py:161
Ids(l) == [ i \in 1..Len(l) |-> l[i].id ]

Call(kind, arg) == [ kind |-> kind, arg |-> arg ]

\* positions inside the try block of cli.py:121-177
StartupPcs == { "get_client", "get_user", "select_action" }

LoopPcs == { "loop_top", "oncall", "skip_sleep", "fetch", "truncate", "update",
             "log_cycle", "except", "sleep" }

TryPcs == StartupPcs \cup LoopPcs

------------------------------------------------------------------------------
(* Initial states *)

NoFile == [ ok |-> TRUE, doc |-> EmptyDict ]

NoLogs == [ cycle_sum |-> 0, shutdown |-> << >>, printed |-> << >> ]

InitRest ==
    /\ pc = "resolve_config"
    /\ cfg = EmptyDict
    /\ bound = {}
    /\ ack_incidents = << >>
    /\ incidents = << >>
    /\ incident_ids = << >>
    /\ oncall = "none"
    /\ raised = "none"
    /\ fetched = << >>
    /\ calls = << >>
    /\ sleeps = 0
    /\ start_len = 0
    /\ appends = 0
    /\ identity_calls = 0
    /\ backend = << >>
    /\ bursts = 0
    /\ interrupted = "no"
    /\ exit_status = None
    /\ exit_cause = "running"
    /\ logs = NoLogs

\* the launches of the daemon: command-line values only, or the credential
\* taken from a config file
Init ==
    /\ \E key \in { None, Box(""), Box("k") },
          ivl \in { None, Box(-1) },
          act \in { None, Box("resolve") },
          sch \in { None, Box("S1") } :
          args = [ config |-> None, pagerduty_api_key |-> key, interval |-> ivl,
                   urgencies |-> None, action |-> act, all_incidents |-> None,
                   schedule_id |-> sch ]
    /\ file = NoFile
    /\ InitRest

------------------------------------------------------------------------------
(* Startup: cli.py:106-141 *)

Exit(status, cause) ==
    /\ pc' = "exited"
    /\ exit_status' = Box(status)
    /\ exit_cause' = cause

\* cli.py:107-108 (resolve_config, 85-103); an unreadable or malformed file
\* makes load_config raise, which nothing catches
ResolveConfig ==
    /\ pc = "resolve_config"
    /\ IF Truthy(args.config) /\ ~file.ok
       THEN /\ Exit(1, "ConfigLoadError")
            /\ UNCHANGED cfg
       ELSE /\ cfg' = resolve_config(args, file)
            /\ pc' = "check_key"
            /\ UNCHANGED << exit_status, exit_cause >>
    /\ UNCHANGED << args, file, bound, ack_incidents, incidents, incident_ids,
                    oncall, raised, calls, sleeps, start_len, appends,
                    identity_calls, backend, bursts, interrupted, logs, fetched >>

\* a plausible slip: only None counts as a missing credential
MissingCredential_NoneOnly(key) == key = None

\* cli.py:111, `not pd_api_key`
MissingCredential(key) == ~Truthy(key)

\* cli.py:110-122: the credential check, then ack_incidents = []
CheckCredential ==
    /\ pc = "check_key"
    /\ IF MissingCredential(pd_api_key)
       THEN /\ Exit(1, "MissingCredential")
            /\ UNCHANGED << bound, ack_incidents >>
       ELSE /\ pc' = "get_client"
            /\ ack_incidents' = << >>
            /\ bound' = bound \cup { "ack_incidents" }
            /\ UNCHANGED << exit_status, exit_cause >>
    /\ UNCHANGED << args, file, cfg, incidents, incident_ids, oncall, raised,
                    calls, sleeps, start_len, appends, identity_calls, backend,
                    bursts, interrupted, logs, fetched >>

\* cli.py:123, pd.get_client: the session object, no request
GetClient ==
    /\ pc = "get_client"
    /\ pc' = "get_user"
    /\ UNCHANGED << args, file, cfg, bound, ack_incidents, incidents,
                    incident_ids, oncall, raised, calls, sleeps, start_len,
                    appends, identity_calls, backend, bursts, interrupted,
                    exit_status, exit_cause, logs, fetched >>

\* a plausible slip: a failed identity request is caught and main goes on
GetUser_FailureCaught ==
    /\ pc = "get_user"
    /\ identity_calls' = identity_calls + 1
    /\ pc' = "select_action"
    /\ \E outcome \in { "ok", "error" } :
          IF outcome = "ok"
          THEN bound' = bound \cup { "user", "user_email", "user_id" }
          ELSE UNCHANGED bound
    /\ UNCHANGED << args, file, cfg, ack_incidents, incidents, incident_ids,
                    oncall, raised, calls, sleeps, start_len, appends, backend,
                    bursts, interrupted, logs, fetched, exit_status, exit_cause >>

\* cli.py:124-126, pd.get_current_user: GET users/me; a failure is not caught
GetUser ==
    /\ pc = "get_user"
    /\ identity_calls' = identity_calls + 1
    /\ \E outcome \in { "ok", "error" } :
          IF outcome = "ok"
          THEN /\ pc' = "select_action"
               /\ bound' = bound \cup { "user", "user_email", "user_id" }
               /\ UNCHANGED << exit_status, exit_cause >>
          ELSE /\ Exit(1, "PDClientError")
               /\ UNCHANGED bound
    /\ UNCHANGED << args, file, cfg, ack_incidents, incidents, incident_ids,
                    oncall, raised, calls, sleeps, start_len, appends, backend,
                    bursts, interrupted, logs, fetched >>

\* cli.py:128-141: statuses, action_fn, action_label, user_ids
SelectAction ==
    /\ pc = "select_action"
    /\ pc' = "loop_top"
    /\ bound' = bound \cup { "statuses", "action_fn", "action_label", "user_ids" }
    /\ UNCHANGED << args, file, cfg, ack_incidents, incidents, incident_ids,
                    oncall, raised, calls, sleeps, start_len, appends,
                    identity_calls, backend, bursts, interrupted, exit_status,
                    exit_cause, logs, fetched >>

------------------------------------------------------------------------------
(* The cycle scheduler: cli.py:143-177 *)

\* a plausible slip: the on-call query is made whether or not a schedule is set
LoopTop_AlwaysGate ==
    /\ pc = "loop_top"
    /\ pc' = "oncall"
    /\ calls' = << >>
    /\ raised' = "none"
    /\ oncall' = "none"
    /\ sleeps' = 0
    /\ start_len' = Len(ack_incidents)
    /\ UNCHANGED << args, file, cfg, bound, ack_incidents, incidents,
                    incident_ids, appends, identity_calls, backend, bursts,
                    interrupted, exit_status, exit_cause, logs, fetched >>

\* a plausible slip: the on-call gate is never consulted
LoopTop_NoGate ==
    /\ pc = "loop_top"
    /\ pc' = "fetch"
    /\ calls' = << >>
    /\ raised' = "none"
    /\ oncall' = "none"
    /\ sleeps' = 0
    /\ start_len' = Len(ack_incidents)
    /\ UNCHANGED << args, file, cfg, bound, ack_incidents, incidents,
                    incident_ids, appends, identity_calls, backend, bursts,
                    interrupted, exit_status, exit_cause, logs, fetched >>

\* cli.py:143-146: an iteration starts
LoopTop ==
    /\ pc = "loop_top"
    /\ pc' = IF Truthy(schedule_id) THEN "oncall" ELSE "fetch"
    /\ calls' = << >>
    /\ raised' = "none"
    /\ oncall' = "none"
    /\ sleeps' = 0
    /\ start_len' = Len(ack_incidents)
    /\ UNCHANGED << args, file, cfg, bound, ack_incidents, incidents,
                    incident_ids, appends, identity_calls, backend, bursts,
                    interrupted, exit_status, exit_cause, logs, fetched >>

\* cli.py:147, pd.is_user_oncall (pd.py:36-50): GET oncalls
CheckOnCall ==
    /\ pc = "oncall"
    /\ \E outcome \in { "entries", "empty", "error" } :
          /\ oncall' = outcome
          /\ pc' = IF is_user_oncall(outcome) THEN "fetch" ELSE "skip_sleep"
    /\ calls' = Append(calls, Call("oncalls", << "user_id", Unbox(schedule_id) >>))
    /\ UNCHANGED << args, file, cfg, bound, ack_incidents, incidents,
                    incident_ids, raised, sleeps, start_len, appends,
                    identity_calls, backend, bursts, interrupted, exit_status,
                    exit_cause, logs, fetched >>

\* cli.py:148-150: "Not on-call, skipping", sleep, continue.  time.sleep raises
\* ValueError on a negative length; here that is inside the try of line 144.
SkipSleep ==
    /\ pc = "skip_sleep"
    /\ IF interval < 0
       THEN /\ pc' = "except"
            /\ raised' = "ValueError"
            /\ UNCHANGED sleeps
       ELSE /\ pc' = "loop_top"
            /\ sleeps' = sleeps + 1
            /\ UNCHANGED raised
    /\ UNCHANGED << args, file, cfg, bound, ack_incidents, incidents,
                    incident_ids, oncall, calls, start_len, appends,
                    identity_calls, backend, bursts, interrupted, exit_status,
                    exit_cause, logs, fetched >>

\* cli.py:152-157, list(pd.get_incidents(...)): GET incidents
Fetch ==
    /\ pc = "fetch"
    /\ calls' = Append(calls, Call("incidents", statuses))
    /\ \E outcome \in { "ok", "error" } :
          IF outcome = "ok"
          THEN /\ incidents' = get_incidents(backend, statuses)
               /\ fetched' = [ i \in 1..Len(incidents') |-> incidents'[i].incident_number ]
               /\ pc' = "truncate"
               /\ UNCHANGED raised
          ELSE /\ pc' = "except"
               /\ raised' = "PDClientError"
               /\ UNCHANGED << incidents, fetched >>
    /\ UNCHANGED << args, file, cfg, bound, ack_incidents, incident_ids, oncall,
                    sleeps, start_len, appends, identity_calls, backend,
                    bursts, interrupted, exit_status, exit_cause, logs >>

\* a plausible slip: ack_incidents += incidents placed before the truncation
TruncateAppend_BeforeTruncate ==
    /\ pc = "truncate"
    /\ Len(incidents) = 0 \/ appends < MaxAppends
    /\ incidents' = SubSeq(incidents, 1, Min(Len(incidents), BatchLimit))
    /\ incident_ids' = [ i \in 1..Len(incidents') |-> incidents'[i].id ]
    /\ ack_incidents' = ack_incidents \o incidents
    /\ appends' = IF incidents = << >> THEN appends ELSE appends + 1
    /\ pc' = "update"
    /\ UNCHANGED << args, file, cfg, bound, oncall, raised, calls, sleeps,
                    start_len, identity_calls, backend, bursts, interrupted,
                    exit_status, exit_cause, logs, fetched >>

\* a plausible slip: an incident already in ack_incidents is not added again
TruncateAppend_Dedup ==
    /\ pc = "truncate"
    /\ Len(incidents) = 0 \/ appends < MaxAppends
    /\ incidents' = SubSeq(incidents, 1, Min(Len(incidents), BatchLimit))
    /\ incident_ids' = [ i \in 1..Len(incidents') |-> incidents'[i].id ]
    /\ ack_incidents' =
          ack_incidents \o
          SelectSeq(incidents',
                    LAMBDA x : \A i \in DOMAIN ack_incidents : ack_incidents[i] # x)
    /\ appends' = IF incidents = << >> THEN appends ELSE appends + 1
    /\ pc' = "update"
    /\ UNCHANGED << args, file, cfg, bound, oncall, raised, calls, sleeps,
                    start_len, identity_calls, backend, bursts, interrupted,
                    exit_status, exit_cause, logs, fetched >>

\* cli.py:160-163: truncate, collect the ids, ack_incidents += incidents.
\* The model follows at most MaxAppends cycles that extend ack_incidents.
TruncateAppend ==
    /\ pc = "truncate"
    /\ Truncate(incidents) = << >> \/ appends < MaxAppends
    /\ incidents' = Truncate(incidents)
    /\ incident_ids' = Ids(incidents')
    /\ ack_incidents' = ack_incidents \o incidents'
    /\ appends' = IF incidents' = << >> THEN appends ELSE appends + 1
    /\ pc' = "update"
    /\ UNCHANGED << args, file, cfg, bound, oncall, raised, calls, sleeps,
                    start_len, identity_calls, backend, bursts, interrupted,
                    exit_status, exit_cause, logs, fetched >>

\* cli.py:165, action_fn(pd_client, incident_ids): at most one PUT incidents
Update ==
    /\ pc = "update"
    /\ LET req == action_fn(incident_ids)
       IN  IF req = None
           THEN /\ pc' = "log_cycle"
                /\ UNCHANGED << calls, backend, raised >>
           ELSE /\ calls' = Append(calls, Call("put", Unbox(req)))
                /\ \E outcome \in { "accepted", "error" } :
                      IF outcome = "accepted"
                      THEN /\ backend' = ApplyUpdate(backend, Unbox(req))
                           /\ pc' = "log_cycle"
                           /\ UNCHANGED raised
                      ELSE /\ pc' = "except"
                           /\ raised' = "PDClientError"
                           /\ UNCHANGED backend
    /\ UNCHANGED << args, file, cfg, bound, ack_incidents, incidents,
                    incident_ids, oncall, sleeps, start_len, appends,
                    identity_calls, bursts, interrupted, exit_status, exit_cause,
                    logs, fetched >>

\* cli.py:167-172: the per-cycle summary
LogCycle ==
    /\ pc = "log_cycle"
    /\ logs' = [ logs EXCEPT !.cycle_sum = @ + Len(incidents) ]
    /\ pc' = "sleep"
    /\ UNCHANGED << args, file, cfg, bound, ack_incidents, incidents,
                    incident_ids, oncall, raised, calls, sleeps, start_len,
                    appends, identity_calls, backend, bursts, interrupted,
                    exit_status, exit_cause, fetched >>

\* a plausible slip: the except clause goes on to the next iteration at once
Except_Continue ==
    /\ pc = "except"
    /\ pc' = "loop_top"
    /\ UNCHANGED << args, file, cfg, bound, ack_incidents, incidents,
                    incident_ids, oncall, raised, calls, sleeps, start_len, appends,
                    identity_calls, backend, bursts, interrupted, exit_status,
                    exit_cause, logs, fetched >>

\* cli.py:173-174: except Exception, "Request failed, will retry next cycle"
Except ==
    /\ pc = "except"
    /\ pc' = "sleep"
    /\ UNCHANGED << args, file, cfg, bound, ack_incidents, incidents,
                    incident_ids, oncall, raised, calls, sleeps, start_len, appends,
                    identity_calls, backend, bursts, interrupted, exit_status,
                    exit_cause, logs, fetched >>

\* cli.py:176-177, outside the inner try: a ValueError from time.sleep leaves
\* the loop and main (only KeyboardInterrupt is caught at line 179)
Sleep ==
    /\ pc = "sleep"
    /\ IF interval < 0
       THEN /\ Exit(1, "ValueError")
            /\ UNCHANGED sleeps
       ELSE /\ pc' = "loop_top"
            /\ sleeps' = sleeps + 1
            /\ UNCHANGED << exit_status, exit_cause >>
    /\ UNCHANGED << args, file, cfg, bound, ack_incidents, incidents,
                    incident_ids, oncall, raised, calls, start_len, appends,
                    identity_calls, backend, bursts, interrupted, logs, fetched >>

------------------------------------------------------------------------------
(* Cancellation and the shutdown report: cli.py:179-190 *)

\* a plausible slip: a bare `except:` in place of `except Exception:`
Catches_Bare(clause, exc) == TRUE

\* does `except <clause>:` catch exc?  KeyboardInterrupt derives from
\* BaseException, not from Exception.
Catches(clause, exc) ==
    \/ clause = exc
    \/ clause = "Exception" /\ exc \in { "PDClientError", "ValueError" }

\* positions inside the inner try of cli.py:144-172
InnerTryPcs == { "loop_top", "oncall", "skip_sleep", "fetch", "truncate",
                 "update", "log_cycle" }

\* the operator's interrupt, delivered anywhere inside the try of line 121: the
\* KeyboardInterrupt passes the except clause of line 173 (and of pd.py:48) and
\* reaches the one of line 179
Interrupt ==
    /\ pc \in TryPcs
    /\ interrupted = "no"
    /\ interrupted' = pc
    /\ IF pc \in InnerTryPcs /\ Catches("Exception", "KeyboardInterrupt")
       THEN /\ pc' = "except"
            /\ raised' = "KeyboardInterrupt"
       ELSE /\ Catches("KeyboardInterrupt", "KeyboardInterrupt")
            /\ pc' = "handler"
            /\ UNCHANGED raised
    /\ UNCHANGED << args, file, cfg, bound, ack_incidents, incidents,
                    incident_ids, oncall, calls, sleeps, start_len,
                    appends, identity_calls, backend, bursts, exit_status,
                    exit_cause, logs, fetched >>

\* cli.py:179-190: count = len(ack_incidents), "Shutting down. Total ...", the
\* itemised summary when ack_incidents is not empty, then main returns.
\* Reading a local that was never assigned raises UnboundLocalError.
Shutdown ==
    /\ pc = "handler"
    /\ IF { "ack_incidents", "action_label" } \subseteq bound
       THEN /\ logs' = [ logs EXCEPT
                  !.shutdown = Append(@, Len(ack_incidents)),
                  !.printed  = IF ack_incidents # << >>
                               THEN Append(@,
                                      [ label |-> action_label,
                                        items |-> [ i \in 1..Len(ack_incidents) |->
                                                      ack_incidents[i].incident_number ],
                                        total |-> Len(ack_incidents) ])
                               ELSE @ ]
            /\ Exit(0, "return")
       ELSE /\ Exit(1, "UnboundLocalError")
            /\ UNCHANGED logs
    /\ UNCHANGED << args, file, cfg, bound, ack_incidents, incidents,
                    incident_ids, oncall, raised, calls, sleeps, start_len,
                    appends, identity_calls, backend, bursts, interrupted, fetched >>

------------------------------------------------------------------------------
(* The environment: incidents arriving at the backend *)

\* k new incidents arrive.  The daemon reads the backend only in Fetch
\* and writes it only in Update, so arrivals are placed before a cycle and
\* between its fetch and its update.
Trigger ==
    /\ pc \in { "loop_top", "update" }
    /\ bursts < MaxBursts
    /\ \E k \in BurstSizes, st \in ArrivalStatuses :
          /\ Len(backend) + k <= MaxIncidents
          /\ k = BigBurst => st = "triggered"
          /\ backend' = backend \o [ i \in 1..k |-> st ]
    /\ bursts' = bursts + 1
    /\ UNCHANGED << pc, args, file, cfg, bound, ack_incidents, incidents,
                    incident_ids, oncall, raised, calls, sleeps, start_len,
                    appends, identity_calls, interrupted, exit_status,
                    exit_cause, logs, fetched >>

------------------------------------------------------------------------------
(* Specifications *)

Next ==
    \/ ResolveConfig
    \/ CheckCredential
    \/ GetClient
    \/ GetUser
    \/ SelectAction
    \/ LoopTop
    \/ CheckOnCall
    \/ SkipSleep
    \/ Fetch
    \/ TruncateAppend
    \/ Update
    \/ LogCycle
    \/ Except
    \/ Sleep
    \/ Interrupt
    \/ Shutdown
    \/ Trigger

Spec == Init /\ [][Next]_vars

------------------------------------------------------------------------------
(* Startup alone, over every combination of command-line and file values *)

\* the document holding the keys the choice fc marks present
DocOf(fc) == [ k \in { k \in Keys : fc[k] # None } |-> Unbox(fc[k]) ]

InitStartup ==
    /\ \E key \in { None, Box(""), Box("k") },
          ivl \in { None, Box(-1), Box(30) },
          urg \in { None, Box(<< "high" >>) },
          act \in { None, Box("ack"), Box("resolve") },
          alli \in { None, Box(TRUE) },
          sch \in { None, Box("S1") },
          path \in { None, Box(""), Box("cfg.toml") } :
          /\ args = [ config |-> path, pagerduty_api_key |-> key,
                      interval |-> ivl, urgencies |-> urg, action |-> act,
                      all_incidents |-> alli, schedule_id |-> sch ]
          /\ IF Truthy(path)
             THEN \/ file = [ ok |-> FALSE, doc |-> EmptyDict ]
                  \/ \E fc \in [ pagerduty_api_key : { None, Box(""), Box("fk") },
                                 interval          : { None, Box(5) },
                                 urgencies         : { None, Box(<< "low" >>) },
                                 action            : { None, Box("resolve") },
                                 all_incidents     : { None, Box(TRUE), Box(FALSE) },
                                 schedule_id       : { None, Box("S2") } ] :
                        file = [ ok |-> TRUE, doc |-> DocOf(fc) ]
             ELSE file = NoFile
    /\ InitRest

NextStartup ==
    \/ ResolveConfig
    \/ CheckCredential
    \/ GetClient
    \/ GetUser
    \/ SelectAction

StartupSpec == InitStartup /\ [][NextStartup]_vars

------------------------------------------------------------------------------
(* Claims *)

\* resolve_config has run and returned
Resolved == DOMAIN cfg = Keys

\* the file value of a key, None when the file (or the key in it) is absent
FileValue(key) ==
    IF Truthy(args.config) /\ file.ok /\ key \in DOMAIN file.doc
    THEN Box(file.doc[key]) ELSE None

\* the built-in defaults as the specification lists them:
\* none, 60, empty, ack, false, none
StatedDefault(key) ==
    CASE key = "pagerduty_api_key" -> None
      [] key = "interval"          -> Box(60)
      [] key = "urgencies"         -> Box(<< >>)
      [] key = "action"            -> Box("ack")
      [] key = "all_incidents"     -> Box(FALSE)
      [] key = "schedule_id"       -> None

\* C8: for each of the six settings, whatever the other five are, the resolved
\* value is the command-line value if one was given, else the file value if the
\* file has the key, else the built-in default.
C8_Precedence ==
    Resolved =>
        \A key \in Keys :
            cfg[key] = IF args[key] # None THEN args[key]
                       ELSE IF FileValue(key) # None THEN FileValue(key)
                       ELSE StatedDefault(key)

\* C8 witness: one resolution in which a command-line value beats a file value,
\* a file value beats a default, and a default is used.
C8_Witness ==
    /\ Resolved
    /\ args.interval # None /\ FileValue("interval") # None
    /\ args.action = None /\ FileValue("action") # None
    /\ args.all_incidents = None /\ FileValue("all_incidents") = Box(TRUE)
    /\ args.schedule_id = None /\ FileValue("schedule_id") = None

\* the startup has passed the credential check of cli.py:111, either way
CredentialChecked ==
    Resolved /\ pc # "check_key"

\* C9: the startup ends with the missing-credential error exactly when the
\* credential merged from command line, file and default is empty (none or the
\* empty string); it then exits with a non-zero status, having asked the
\* backend nothing and never having entered the try block or the loop.
C9_MissingCredential ==
    /\ CredentialChecked =>
          ( exit_cause = "MissingCredential"
              <=> ( cfg["pagerduty_api_key"] = None
                    \/ cfg["pagerduty_api_key"] = Box("") ) )
    /\ exit_cause = "MissingCredential" =>
          /\ pc = "exited"
          /\ exit_status # None /\ Unbox(exit_status) # 0
          /\ identity_calls = 0
          /\ calls = << >>
          /\ bound = {}

\* C9 witness: the command line gives no credential, the file gives an empty
\* one, and the startup has ended with the error.
C9_Witness ==
    /\ exit_cause = "MissingCredential"
    /\ args.pagerduty_api_key = None
    /\ FileValue("pagerduty_api_key") = Box("")

------------------------------------------------------------------------------
(* Claims about the cycle scheduler *)

PutsIn(cs) == SelectSeq(cs, LAMBDA c : c.kind = "put")

FetchesIn(cs) == SelectSeq(cs, LAMBDA c : c.kind = "incidents")

Range(f) == { f[i] : i \in DOMAIN f }

\* the entries the current cycle has added to ack_incidents
NewEntries == SubSeq(ack_incidents, start_len + 1, Len(ack_incidents))

\* a backend request of the current cycle raised: the on-call query (swallowed
\* at pd.py:48), the fetch or the bulk update
CycleRaised == raised = "PDClientError" \/ oncall = "error"

\* C1 (as claimed): a cycle in which the on-call check, the fetch or the bulk
\* update raised is followed by the sleep and then by the next cycle; only the
\* cancellation takes the scheduler out of the loop.
C1_FailingCycleKeepsRunning ==
    [][ /\ (pc = "except" /\ CycleRaised) => pc' \in { "sleep", "handler" }
        /\ (pc = "sleep" /\ CycleRaised) =>
              \/ pc' = "loop_top" /\ sleeps' = sleeps + 1
              \/ pc' = "handler" ]_vars

\* C1, the part the code keeps: with an interval that time.sleep accepts, the
\* failing cycle is followed by the sleep and the next cycle.
C1_KeptForNonNegativeInterval ==
    [][ /\ (pc = "except" /\ CycleRaised) => pc' \in { "sleep", "handler" }
        /\ (pc = "sleep" /\ CycleRaised /\ interval >= 0) =>
              \/ pc' = "loop_top" /\ sleeps' = sleeps + 1
              \/ pc' = "handler" ]_vars

\* C2 (as claimed): when the fetch or the bulk update of a cycle raised,
\* ack_incidents at the end of the cycle is what it was at its start.
C2_FailedCycleLeavesRunState ==
    (pc \in { "except", "sleep" } /\ raised = "PDClientError") =>
        Len(ack_incidents) = start_len

\* C3: in a cycle whose on-call query returned no entries, that query is the
\* only backend request of the cycle (no fetch, no bulk update) and
\* ack_incidents is what it was when the cycle started.
C3_NotOnCallSkips ==
    oncall = "empty" =>
        /\ Len(calls) = 1
        /\ calls[1].kind = "oncalls"
        /\ Len(ack_incidents) = start_len

\* C3 witness: a skipped cycle has slept and is over although the backend held
\* incidents the fetch would have returned.
C3_Witness ==
    /\ oncall = "empty"
    /\ pc = "loop_top"
    /\ sleeps = 1
    /\ Matching(backend, statuses) # {}

\* C4: when the on-call query fails, the cycle is not skipped: its next step is
\* the fetch, the fetch request is issued, and a non-empty result is followed by
\* the bulk update, as in a cycle whose query returned entries.
C4_FailOpen ==
    [][ /\ (pc = "oncall" /\ oncall' = "error") => pc' = "fetch"
        /\ (pc = "fetch" /\ oncall = "error" /\ pc' \in { "truncate", "except" }) =>
              /\ Len(calls') = 2
              /\ calls'[2].kind = "incidents"
        /\ (pc = "update" /\ oncall = "error" /\ pc' \in { "log_cycle", "except" }
              /\ fetched # << >>) =>
              Len(PutsIn(calls')) = 1 ]_vars

\* C4 witness: the query failed and the same cycle's bulk update was accepted.
C4_Witness ==
    /\ oncall = "error"
    /\ pc = "log_cycle"
    /\ Len(PutsIn(calls)) = 1

\* C5: a cycle issues no bulk update before its act step; the act step issues
\* none when the fetch returned nothing and exactly one otherwise; no bulk
\* update names more than 250 incidents.
C5_OneBoundedUpdate ==
    [][ /\ Len(PutsIn(calls')) <= 1
        /\ \A i \in DOMAIN calls' :
              calls'[i].kind = "put" => Len(calls'[i].arg) <= 250
        /\ pc' \in { "oncall", "skip_sleep", "fetch", "truncate", "update" } =>
              PutsIn(calls') = << >>
        /\ (pc = "update" /\ pc' \in { "log_cycle", "except" }) =>
              Len(PutsIn(calls')) = IF fetched = << >> THEN 0 ELSE 1 ]_vars

\* C5 witness: more than 250 incidents were fetched and the one request of the
\* cycle names 250.
C5_Witness ==
    /\ pc = "log_cycle"
    /\ Len(fetched) > 250
    /\ Len(PutsIn(calls)) = 1
    /\ Len(PutsIn(calls)[1].arg) = 250

\* C6: when the fetch returned n incidents and the bulk update was accepted (or
\* n = 0 and none was needed), the cycle has added exactly min(n, 250) entries
\* to ack_incidents: the first min(n, 250) fetched, in fetch order, which are
\* the incidents the cycle's request names, in the same order.
C6_GrowthEqualsRequest ==
    pc = "log_cycle" =>
        LET n == Len(fetched)
            k == IF n < 250 THEN n ELSE 250
            puts == PutsIn(calls)
        IN  /\ Len(ack_incidents) = start_len + k
            /\ \A i \in 1..k : NewEntries[i].incident_number = fetched[i]
            /\ IF k = 0 THEN puts = << >>
               ELSE /\ Len(puts) = 1
                    /\ Len(puts[1].arg) = k
                    /\ \A i \in 1..k : puts[1].arg[i].id = NewEntries[i].id

\* C6 witness: three incidents fetched, one accepted request naming three,
\* three new entries.
C6_Witness ==
    /\ pc = "log_cycle"
    /\ Len(fetched) = 3
    /\ Len(PutsIn(calls)) = 1
    /\ Len(PutsIn(calls)[1].arg) = 3
    /\ Len(NewEntries) = 3

\* what the shutdown report prints for the run state rs
ExpectedSummary(rs) ==
    IF rs = << >> THEN << >>
    ELSE << [ label |-> action_label,
              items |-> [ i \in 1..Len(rs) |-> rs[i].incident_number ],
              total |-> Len(rs) ] >>

\* C7: an interrupt delivered while the scheduler is in the loop (anywhere from
\* the top of an iteration to its sleep) takes main to the handler of
\* cli.py:179; from then on no backend request is issued; the handler reports
\* once, over ack_incidents as it stood, and the process ends with status 0.
C7_CancellationShutsDown ==
    [][ /\ (interrupted = "no" /\ interrupted' \in LoopPcs) => pc' = "handler"
        /\ interrupted # "no" =>
              /\ calls' = calls
              /\ identity_calls' = identity_calls
              /\ ack_incidents' = ack_incidents
        /\ (interrupted \in LoopPcs /\ pc = "handler") =>
              /\ pc' = "exited"
              /\ exit_status' = Box(0)
              /\ logs'.shutdown = << Len(ack_incidents) >>
              /\ logs'.printed = ExpectedSummary(ack_incidents)
        /\ pc = "exited" => pc' = "exited" ]_vars

\* C7 witness: interrupted between the append and the bulk update, the process
\* has printed its one summary and ended with status 0.
C7_Witness ==
    /\ pc = "exited"
    /\ interrupted = "update"
    /\ exit_status = Box(0)
    /\ ack_incidents # << >>
    /\ Len(logs.printed) = 1
    /\ logs.shutdown = << Len(ack_incidents) >>

\* incidents the configured action still applies to
Pending == IF Resolved THEN Matching(backend, statuses) ELSE {}

\* C10, one cycle: when the fetch returned more than 250 incidents and the bulk
\* update was accepted, the cycle added 250 entries, they are the 250 highest
\* fetched numbers, these are no longer eligible, and every other fetched
\* incident still is.
C10_ActsOnNewest ==
    (pc = "log_cycle" /\ Len(fetched) > 250) =>
        LET F == Range(fetched)
            A == { NewEntries[i].incident_number : i \in DOMAIN NewEntries }
        IN  /\ Len(NewEntries) = 250
            /\ Cardinality(A) = 250
            /\ A \subseteq F
            /\ \A a \in A : \A r \in F \ A : a > r
            /\ \A a \in A : ~HasStatus(backend[a], statuses)
            /\ \A r \in F \ A : HasStatus(backend[r], statuses)

\* C10, the next fetch: an incident fetched before and still eligible is
\* returned again.
C10_Refetched ==
    (pc = "fetch" /\ pc' = "truncate") =>
        \A n \in Range(fetched) :
            HasStatus(backend[n], statuses) => n \in Range(fetched')

\* C10: more than 250 matching incidents are handled newest first, 250 per
\* cycle; the rest stays eligible, is fetched again, and, if cycles keep
\* completing (fetch answered, update accepted), no eligible incident remains.
C10_DeferredRemainder ==
    /\ []C10_ActsOnNewest
    /\ [][C10_Refetched]_vars
    /\ ([]<><<LogCycle>>_vars => <>[](Pending = {}))

\* C10 witness: 252 incidents; a first cycle took 250, and a later cycle has
\* just taken the remaining two; none is eligible any more.
C10_Witness ==
    /\ pc = "log_cycle"
    /\ Len(backend) = 252
    /\ start_len = 250
    /\ fetched = << 2, 1 >>
    /\ Len(ack_incidents) = 252
    /\ Pending = {}

------------------------------------------------------------------------------
(* Claims about the order and the content of a cycle's requests *)

Kinds(cs) == [ i \in 1..Len(cs) |-> cs[i].kind ]

IsPrefix(s, t) == Len(s) <= Len(t) /\ \A i \in 1..Len(s) : s[i] = t[i]

\* C11: the requests of a cycle are issued one after the other in the order
\* on-call query (when a schedule is configured), fetch, bulk update: what the
\* cycle has issued so far is always a prefix of that order, so no fetch comes
\* before the on-call query and no bulk update without the cycle's fetch before
\* it; and while a request is being issued the earlier ones are complete.
C11_CallOrder ==
    (Resolved /\ pc \in LoopPcs \cup { "handler", "exited" }) =>
        /\ IsPrefix(Kinds(calls),
                    IF schedule_id # None /\ Unbox(schedule_id) # ""
                    THEN << "oncalls", "incidents", "put" >>
                    ELSE << "incidents", "put" >>)
        /\ pc = "fetch" => (schedule_id # None /\ Unbox(schedule_id) # ""
                               => Kinds(calls) = << "oncalls" >>)
        /\ (pc = "update" /\ incident_ids # << >>) =>
              /\ Len(calls) >= 1
              /\ calls[Len(calls)].kind = "incidents"

\* C11 witness: a gated cycle has issued all three requests.
C11_Witness ==
    /\ pc = "log_cycle"
    /\ Kinds(calls) = << "oncalls", "incidents", "put" >>

\* what the spec states for the two action modes
StatedFilter(mode) ==
    IF mode = "resolve" THEN { "triggered", "acknowledged" } ELSE { "triggered" }

StatedTarget(mode) == IF mode = "resolve" THEN "resolved" ELSE "acknowledged"

\* C12: in every cycle the fetch asks for the statuses of the action mode
\* ({triggered} for ack, {triggered, acknowledged} for resolve), and the bulk
\* update is one request that names the first min(n, 250) incidents the fetch
\* returned, in order, each with the target status of the mode (acknowledged
\* for ack, resolved for resolve).
C12_ModeFixesFilterAndTarget ==
    (Resolved /\ pc \in LoopPcs \cup { "handler", "exited" }) =>
        /\ \A i \in DOMAIN calls :
              calls[i].kind = "incidents" =>
                  Range(calls[i].arg) = StatedFilter(action)
        /\ \A i \in DOMAIN calls :
              calls[i].kind = "put" =>
                  /\ Len(calls[i].arg) = Min(Len(fetched), BatchLimit)
                  /\ \A j \in DOMAIN calls[i].arg :
                        /\ calls[i].arg[j].id = Incident(fetched[j]).id
                        /\ calls[i].arg[j].status = StatedTarget(action)
        /\ Len(PutsIn(calls)) <= 1

\* C12 witness: in resolve mode a fetch returned more than 250 incidents and
\* the accepted bulk update resolved the 250 it named.
C12_Witness ==
    /\ pc = "log_cycle"
    /\ action = "resolve"
    /\ Len(fetched) > BatchLimit
    /\ \E i \in DOMAIN calls :
          /\ calls[i].kind = "put"
          /\ Len(calls[i].arg) = BatchLimit
          /\ \A j \in 1..BatchLimit : backend[fetched[j]] = "resolved"

------------------------------------------------------------------------------
(* Claims about the settings the loop runs with *)

\* C13: whenever the loop is running the credential is non-empty and the poll
\* interval is a positive integer.
C13_LoopSettingsValid ==
    (Resolved /\ pc \in LoopPcs) =>
        /\ pd_api_key # None /\ Unbox(pd_api_key) # ""
        /\ interval \in Nat \ { 0 }

\* the half of C13 the code does keep: the credential check of cli.py:110-113
\* stands before the loop
C13_CredentialNonEmpty ==
    (Resolved /\ pc \in LoopPcs) => (pd_api_key # None /\ Unbox(pd_api_key) # "")

------------------------------------------------------------------------------
(* Claims about the identity request *)

\* C14: the identity (GET users/me) is requested at most once in a run and
\* exactly once before any cycle; the loop runs only with the identity
\* resolved; and when the request fails the process has exited with status 1
\* without having entered the loop: no on-call, fetch or update request, no
\* cycle log, nothing in ack_incidents.
C14_IdentityOnceAndFatal ==
    /\ identity_calls <= 1
    /\ pc \in LoopPcs =>
          /\ identity_calls = 1
          /\ { "user", "user_email", "user_id" } \subseteq bound
    /\ identity_calls = 0 => (calls = << >> /\ "statuses" \notin bound)
    /\ exit_cause = "PDClientError" =>
          /\ pc = "exited"
          /\ exit_status = Box(1)
          /\ identity_calls = 1
          /\ "user" \notin bound
          /\ "statuses" \notin bound
          /\ calls = << >>
          /\ ack_incidents = << >>
          /\ logs = NoLogs

\* C14 witness: the identity request failed and the process exited on it.
C14_Witness ==
    /\ pc = "exited"
    /\ exit_cause = "PDClientError"
    /\ identity_calls = 1
    /\ interrupted = "no"

------------------------------------------------------------------------------
(* Claims about the on-call gate when no schedule is configured *)

\* C15: with no schedule id configured, no cycle issues an on-call query or
\* takes the not-on-call path: the first step of every cycle is the fetch, and
\* a cycle past its fetch has the fetch as its first request.
C15_NoScheduleNoGate ==
    (Resolved /\ schedule_id = None) =>
        /\ \A i \in DOMAIN calls : calls[i].kind # "oncalls"
        /\ oncall = "none"
        /\ pc \notin { "oncall", "skip_sleep" }
        /\ pc \in { "truncate", "update", "log_cycle" } =>
              (Len(calls) >= 1 /\ calls[1].kind = "incidents")
        /\ (pc \in { "except", "sleep" } /\ interrupted = "no") =>
              (Len(calls) >= 1 /\ calls[1].kind = "incidents")

\* C15 witness: an ungated cycle fetched and updated.
C15_Witness ==
    /\ Resolved
    /\ schedule_id = None
    /\ pc = "log_cycle"
    /\ Kinds(calls) = << "incidents", "put" >>

------------------------------------------------------------------------------
(* Claims about ack_incidents over a whole run *)

\* the incidents a cycle selects: the first min(n, 250) of its fetch
Selected ==
    [ j \in 1..Min(Len(fetched), BatchLimit) |-> Incident(fetched[j]) ]

\* C16: ack_incidents is empty at the start and every step leaves the old
\* value as a prefix of the new one; the step that records a cycle's selection
\* appends all of it, also the incidents that are in ack_incidents already, so
\* an incident selected in k cycles is there k times.
C16_AppendOnly ==
    /\ ack_incidents = << >>
    /\ [][ /\ IsPrefix(ack_incidents, ack_incidents')
           /\ (pc = "truncate" /\ pc' = "update") =>
                 ack_incidents' = ack_incidents \o Selected ]_vars

\* C16 witness: an incident selected in two cycles is in ack_incidents twice.
C16_Witness ==
    /\ appends = 2
    /\ \E i, j \in DOMAIN ack_incidents :
          /\ i <= start_len
          /\ j > start_len
          /\ ack_incidents[i] = ack_incidents[j]

------------------------------------------------------------------------------
(* Claims about the sleep between iterations *)

\* C17: an iteration is followed by the next one only through one completed
\* sleep: the step that begins the next iteration is the sleep of the skip
\* path (cli.py:149) or the sleep after the cycle (cli.py:177), it is the only
\* sleep of the iteration, and it is reached on the skip path with the on-call
\* query as the only request, on the normal path after the cycle log, on the
\* error path after the except clause.  The first iteration starts with no
\* sleep and no request behind it; every later one with exactly one sleep.
C17_OneSleepPerIteration ==
    /\ [](sleeps <= 1)
    /\ [](pc = "loop_top" => \/ sleeps = 0 /\ calls = << >> /\ start_len = 0
                             \/ sleeps = 1 /\ calls # << >>)
    /\ [](sleeps = 1 => pc \in { "loop_top", "handler", "exited" })
    /\ [][ (pc' = "loop_top" /\ pc # "loop_top") =>
              \/ pc = "select_action" /\ sleeps' = 0
              \/ /\ pc = "skip_sleep"
                 /\ sleeps = 0 /\ sleeps' = 1
                 /\ Kinds(calls) = << "oncalls" >>
              \/ /\ pc = "sleep"
                 /\ sleeps = 0 /\ sleeps' = 1
                 /\ Len(FetchesIn(calls)) = 1 ]_vars

\* C17 witness: an iteration abandoned after an error has slept and the next
\* one is about to start.
C17_Witness ==
    /\ pc = "loop_top"
    /\ sleeps = 1
    /\ raised = "PDClientError"

------------------------------------------------------------------------------
(* Claims about the shutdown report *)

\* C18: once the shutdown report is out, its total is the sum of the counts
\* of the per-cycle summaries, and every incident it lists was named in a
\* bulk update the backend accepted (so the backend holds it in the target
\* status of the action).
C18_ReportMatchesCycles ==
    (pc = "exited" /\ exit_cause = "return") =>
        /\ logs.shutdown = << logs.cycle_sum >>
        /\ \A i \in DOMAIN ack_incidents :
              backend[ack_incidents[i].incident_number] = StatedTarget(action)

\* what the code does keep: the total is len(ack_incidents), never less than
\* the sum of the per-cycle counts
C18_TotalIsLength ==
    (pc = "exited" /\ exit_cause = "return") =>
        /\ logs.shutdown = << Len(ack_incidents) >>
        /\ logs.cycle_sum <= Len(ack_incidents)

------------------------------------------------------------------------------
(* Claims about cancellation before the first cycle *)

\* C19: a run cancelled between the credential check and the first cycle
\* (while the client is opened, the identity is requested or the action is
\* selected) ends with status 0 by returning from the handler, with
\* ack_incidents empty and a shutdown total of 0.
C19_HandlerWellDefined ==
    (pc = "exited" /\ interrupted \in StartupPcs) =>
        /\ exit_status = Box(0)
        /\ exit_cause = "return"
        /\ ack_incidents = << >>
        /\ logs.shutdown = << 0 >>

\* what the code does keep: the handler is well-defined once the loop runs
C19_WellDefinedInLoop ==
    (pc = "exited" /\ interrupted \in LoopPcs) =>
        (exit_status = Box(0) /\ exit_cause = "return")

====
